---- MODULE Spec2Model ----
(***************************************************************************)
(* A model of JiraOAuth2Client (src/src/JiraOAuth2Client.ts): the three    *)
(* axios instances and their Authorization headers, the request dispatcher *)
(* makeRequest with its error normalisation, the createIssue validators,   *)
(* the query-parameter builders of getIssue and searchIssues, and the two  *)
(* pagination loops getEpics and getIssuesForProject.                      *)
(*                                                                         *)
(* A call of an async method is a slot of `calls`: it is "idle", then      *)
(* "awaiting" while one transport request is in flight, then "done" with   *)
(* the value returned or the error thrown, until the caller takes it.      *)
(***************************************************************************)
EXTENDS Integers, Sequences, FiniteSets, TLC

VARIABLES
    clients,      \* the three AxiosInstances: base URL and Authorization headers
    calls,        \* the calls of client methods in progress, one per caller
    serverTotal,  \* number of items the remote service holds for a search
    lastSet       \* the argument of the latest setAccessToken, None before any

vars == <<clients, calls, serverTotal, lastSet>>

-----------------------------------------------------------------------------
(* Bounds of the model.                                                    *)

MaxTokens == 2          \* distinct access tokens
MaxCalls == 2           \* concurrent callers
MaxSmallItems == 2      \* items held by the server where paging is not the subject
MaxItems == 2001        \* items held by the server where paging is the subject
MaxRequests == 3        \* requests one pagination call may issue before the model stops following it
MaxNames == 2           \* length of a fields / expand array
MaxCap == 3             \* caller-supplied maxResults where paging is not the subject

-----------------------------------------------------------------------------
(* Optional (possibly undefined) values.                                   *)

None == <<>>
Some(v) == <<v>>
Min(a, b) == IF a <= b THEN a ELSE b
Max(a, b) == IF a >= b THEN a ELSE b

Tokens == {"T" \o ToString(i) : i \in 1..MaxTokens}
Calls == 1..MaxCalls
Families == {"jira", "agile", "atlassian"}
ApiVersions == {"2", "3"}
CloudId == "cloud"

\* `Bearer ${accessToken}`
Bearer(token) == "Bearer " \o token

-----------------------------------------------------------------------------
(* Construction.                                                           *)

\* createClient: axios.create({baseURL, headers: {Authorization, ...}}) puts the
\* Authorization header among the instance's own default headers; the
\* instance's `common` headers hold no Authorization yet.
createClient(baseURL, accessToken) ==
    [baseURL |-> baseURL, Authorization |-> Some(Bearer(accessToken)), common |-> None]

BaseUrl == "https://api.atlassian.com/ex/jira/" \o CloudId

constructor(accessToken, apiVersion) ==
    [f \in Families |->
        CASE f = "jira" -> createClient(BaseUrl \o "/rest/api/" \o apiVersion, accessToken)
          [] f = "agile" -> createClient(BaseUrl \o "/rest/agile/1.0", accessToken)
          [] f = "atlassian" -> createClient("https://api.atlassian.com", accessToken)]

IdleCall ==
    [pc |-> "idle", op |-> "none", args |-> None, req |-> None, nreq |-> 0, loc |-> None,
     rejection |-> None, result |-> None]

\* A method is called: its name and its arguments.
Begin(call, op, args) == [call EXCEPT !.op = op, !.args = Some(args)]

InitWith(totals) ==
    /\ \E t \in Tokens : clients = constructor(t, "3")
    /\ calls = [c \in Calls |-> IdleCall]
    /\ serverTotal \in totals
    /\ lastSet = None

Init == InitWith(0..MaxSmallItems)

-----------------------------------------------------------------------------
(* Token update.                                                           *)

\* setAccessToken: writes defaults.headers.common['Authorization'] of the three
\* instances; the instances' own Authorization header is left as constructed.
setAccessToken(newAccessToken) ==
    /\ clients' = [f \in Families |-> [clients[f] EXCEPT !.common = Some(Bearer(newAccessToken))]]
    /\ lastSet' = Some(newAccessToken)
    /\ UNCHANGED <<calls, serverTotal>>

-----------------------------------------------------------------------------
(* The transport: what client.request sends and what it answers.           *)

\* client.request flattens the instance's default headers into the request at
\* the moment it is called: the `common` defaults first, then the instance's
\* own headers over them, so an own header wins over a `common` one of the
\* same name.
RequestAuthorization(client) ==
    IF client.Authorization # None THEN client.Authorization
    ELSE client.common

NoParams == [jql |-> None, fields |-> None, expand |-> None, maxResults |-> None, startAt |-> None]

\* The request interceptor logs the request and passes it on.
requestInterceptor(req) == req

\* The response interceptors log and pass the response on, or reject with the
\* same error.
responseInterceptor(res) == res
responseErrorInterceptor(error) == error

\* client.request({ method, url: endpoint, data, ...config })
Request(family, method, endpoint, data, params) ==
    requestInterceptor(
        [family |-> family, baseURL |-> clients[family].baseURL, method |-> method,
         url |-> endpoint, data |-> data, params |-> params,
         Authorization |-> RequestAuthorization(clients[family])])

\* The value of a JavaScript expression that may be of several types.
Undefined == [t |-> "undefined", v |-> <<>>]
Array(items) == [t |-> "array", v |-> items]
Str(s) == [t |-> "string", v |-> <<s>>]

\* Array.prototype.join(sep). `empty` is the empty string in the representation
\* of the items: "" for texts, <<>> for strings kept as sequences of characters.
RECURSIVE join(_, _, _)
join(items, sep, empty) ==
    IF items = <<>> THEN empty
    ELSE IF Len(items) = 1 THEN items[1]
    ELSE items[1] \o sep \o join(Tail(items), sep, empty)

\* Bodies of error responses: errorMessages absent, an array, or (a body of
\* another shape) a string; message absent, empty or a text.
ErrorMessagesValues ==
    {Undefined, Array(<<>>), Array(<<"e1">>), Array(<<"e1", "e2">>), Array(<<"">>), Str("e1")}
MessageValues == {None, Some(""), Some("m")}
ErrorBodies == [errorMessages : ErrorMessagesValues, message : MessageValues]
Statuses == {[status |-> 404, statusText |-> "Not Found"],
             [status |-> 403, statusText |-> "Forbidden"]}
TransportMessages == {"", "Request failed"}

\* An error of the transport: with the response of the server (status, status
\* text, body if any), or without one (a network-level failure).
AxiosError(message, response) == [message |-> message, response |-> response]
Response(st, data) == [status |-> st.status, statusText |-> st.statusText, data |-> data]

AllErrors ==
    {AxiosError(m, None) : m \in TransportMessages}
    \cup {AxiosError(m, Some(Response(st, None))) : m \in TransportMessages, st \in Statuses}
    \cup {AxiosError(m, Some(Response(st, Some(b)))) :
            m \in TransportMessages, st \in Statuses, b \in ErrorBodies}

ErrorSamples ==
    {AxiosError("Network Error", None),
     AxiosError("Request failed", Some(Response([status |-> 404, statusText |-> "Not Found"],
        Some([errorMessages |-> Array(<<"e1">>), message |-> None]))))}

-----------------------------------------------------------------------------
(* makeRequest: the dispatcher and its error normalisation.                *)

\* error.response?.data?.errorMessages
errorMessagesOf(error) ==
    IF error.response = None THEN Undefined
    ELSE IF error.response[1].data = None THEN Undefined
    ELSE error.response[1].data[1].errorMessages

\* error.response?.data?.message
dataMessageOf(error) ==
    IF error.response = None THEN None
    ELSE IF error.response[1].data = None THEN None
    ELSE error.response[1].data[1].message

\* errorMessages?.join(', ') is a call of a method only arrays have: on any
\* other defined value it raises a TypeError inside the catch block.
joinThrows(error) == errorMessagesOf(error).t \notin {"undefined", "array"}

\* errorMessage preferring the message of the body to its errorMessages.
errorMessage_BodyMessageFirst(error) ==
    LET em == errorMessagesOf(error)
        joined == IF em.t = "array" THEN join(em.v, ", ", "") ELSE ""
        dm == dataMessageOf(error)
    IN  IF dm # None /\ dm[1] # "" THEN dm[1]
        ELSE IF joined # "" THEN joined
        ELSE IF error.message # "" THEN error.message
        ELSE "An unknown Jira API error occurred"

\* errorMessage without the fallback text.
errorMessage_NoFallback(error) ==
    LET em == errorMessagesOf(error)
        joined == IF em.t = "array" THEN join(em.v, ", ", "") ELSE ""
        dm == dataMessageOf(error)
    IN  IF joined # "" THEN joined
        ELSE IF dm # None /\ dm[1] # "" THEN dm[1]
        ELSE error.message

\* const errorMessage = a || b || c || 'An unknown Jira API error occurred'
errorMessage(error) ==
    LET em == errorMessagesOf(error)
        joined == IF em.t = "array" THEN join(em.v, ", ", "") ELSE ""
        dm == dataMessageOf(error)
    IN  IF joined # "" THEN joined
        ELSE IF dm # None /\ dm[1] # "" THEN dm[1]
        ELSE IF error.message # "" THEN error.message
        ELSE "An unknown Jira API error occurred"

\* new JiraApiError(message, status, statusText, responseData, originalError)
JiraApiError(message, status, statusText, responseData, originalError) ==
    [kind |-> "JiraApiError", message |-> message, status |-> status,
     statusText |-> statusText, responseData |-> responseData,
     originalError |-> originalError, value |-> None]

\* error[p] for a JiraApiError: the properties the class declares (and name,
\* message of Error); a property it does not declare reads undefined.
JiraApiErrorProperty(error, p) ==
    CASE p = "name" -> Some(error.kind)
      [] p = "message" -> Some(error.message)
      [] p = "status" -> error.status
      [] p = "statusText" -> error.statusText
      [] p = "responseData" -> error.responseData
      [] p = "originalError" -> error.originalError
      [] OTHER -> None

\* new Error(message)
Error(message) ==
    [kind |-> "Error", message |-> message, status |-> None, statusText |-> None,
     responseData |-> None, originalError |-> None, value |-> None]

TypeError ==
    [kind |-> "TypeError", message |-> "join is not a function", status |-> None,
     statusText |-> None, responseData |-> None, originalError |-> None, value |-> None]

Returned(value) ==
    [kind |-> "ok", message |-> "", status |-> None, statusText |-> None,
     responseData |-> None, originalError |-> None, value |-> Some(value)]

\* makeRequestCatch reading error.status, which the transport error does not
\* have, where error.response?.status belongs.
makeRequestCatch_NoStatus(error) ==
    IF joinThrows(error) THEN TypeError
    ELSE JiraApiError(
            errorMessage(error),
            None,
            IF error.response = None THEN None ELSE Some(error.response[1].statusText),
            IF error.response = None THEN None ELSE error.response[1].data,
            Some(error))

\* The catch block of makeRequest: what it throws for a transport error.
makeRequestCatch(error) ==
    IF joinThrows(error) THEN TypeError
    ELSE JiraApiError(
            errorMessage(error),
            IF error.response = None THEN None ELSE Some(error.response[1].status),
            IF error.response = None THEN None ELSE Some(error.response[1].statusText),
            IF error.response = None THEN None ELSE error.response[1].data,
            Some(error))

\* makeRequest handing the request to the transport twice.
makeRequest_SendsTwice(call, family, method, endpoint, data, params) ==
    [call EXCEPT !.pc = "awaiting",
                 !.req = Some(Request(family, method, endpoint, data, params)),
                 !.nreq = @ + 2]

\* makeRequest up to its await: one request handed to the transport.
makeRequest(call, family, method, endpoint, data, params) ==
    [call EXCEPT !.pc = "awaiting",
                 !.req = Some(Request(family, method, endpoint, data, params)),
                 !.nreq = @ + 1]

\* An async method that throws before its first await: the call is rejected.
Throw(call, error) ==
    [call EXCEPT !.pc = "done", !.req = None, !.result = Some(error)]

Return(call, value) ==
    [call EXCEPT !.pc = "done", !.req = None, !.result = Some(Returned(value))]

-----------------------------------------------------------------------------
(* The remote service.                                                     *)

MAX_RESULTS == 1000
Infinity == 2147483647
ServerDefaultMaxResults == 50

\* The items at positions startAt+1 .. startAt+maxResults of the `total` the
\* service holds, each item named by its position.
Page(total, startAt, maxResults) ==
    [i \in 1..Max(0, Min(maxResults, total - startAt)) |-> startAt + i]

\* The answer to GET /search: an omitted startAt counts as 0, an omitted
\* maxResults as the service's default page size.
SearchResponse(params, total) ==
    LET s == IF params.startAt = None THEN 0 ELSE params.startAt[1]
        n == IF params.maxResults = None THEN ServerDefaultMaxResults ELSE params.maxResults[1]
    IN  [issues |-> Page(total, s, n), startAt |-> s, maxResults |-> n, total |-> total]

\* The body of a successful response.
ResponseData(req, total) ==
    IF req.url = "/search" THEN SearchResponse(req.params, total)
    ELSE [issues |-> <<>>, startAt |-> 0, maxResults |-> 0, total |-> 0]

-----------------------------------------------------------------------------
(* createIssue.                                                            *)

\* !x for an optional string: undefined and '' are falsy.
Falsy(s) == s = None \/ s[1] = ""

ProjectValues == {None, Some([key |-> None]), Some([key |-> Some("")]), Some([key |-> Some("PROJ")])}
IssueTypeValues ==
    {None} \cup {Some([name |-> n, id |-> i]) : n \in {None, Some("Task")}, i \in {None, Some("10001")}}
SummaryValues == {None, Some(""), Some("S")}
CreateIssueRequests ==
    [project : ProjectValues, issuetype : IssueTypeValues, summary : SummaryValues]

\* issueData.fields.project?.key
projectKeyOf(fields) == IF fields.project = None THEN None ELSE fields.project[1].key
\* issueData.fields.issuetype?.name, issueData.fields.issuetype?.id
issuetypeName(fields) == IF fields.issuetype = None THEN None ELSE fields.issuetype[1].name
issuetypeId(fields) == IF fields.issuetype = None THEN None ELSE fields.issuetype[1].id

\* createIssueValidate with the summary check moved to the front.
createIssueValidate_SummaryFirst(fields) ==
    IF Falsy(fields.summary) THEN Some("Missing required field: summary")
    ELSE IF Falsy(projectKeyOf(fields)) THEN Some("Missing required field: project.key")
    ELSE IF Falsy(issuetypeName(fields)) /\ Falsy(issuetypeId(fields))
        THEN Some("Missing required field: issuetype (name or id)")
    ELSE None

\* The three checks of createIssue, in the order of the code: the message of
\* the error thrown, None when the payload passes.
createIssueValidate(fields) ==
    IF Falsy(projectKeyOf(fields)) THEN Some("Missing required field: project.key")
    ELSE IF Falsy(issuetypeName(fields)) /\ Falsy(issuetypeId(fields))
        THEN Some("Missing required field: issuetype (name or id)")
    ELSE IF Falsy(fields.summary) THEN Some("Missing required field: summary")
    ELSE None

\* createIssue validating only after the request has been handed to the transport.
createIssue_SendThenValidate(c, fields) ==
    /\ calls[c].pc = "idle"
    /\ calls' = [calls EXCEPT ![c] =
            IF createIssueValidate(fields) # None
            THEN Throw(makeRequest(Begin(@, "createIssue", fields), "jira", "POST", "/issue",
                                   Some(fields), NoParams),
                       Error(createIssueValidate(fields)[1]))
            ELSE makeRequest(Begin(@, "createIssue", fields), "jira", "POST", "/issue",
                             Some(fields), NoParams)]
    /\ UNCHANGED <<clients, serverTotal, lastSet>>

createIssue(c, fields) ==
    /\ calls[c].pc = "idle"
    /\ calls' = [calls EXCEPT ![c] =
            IF createIssueValidate(fields) # None
            THEN Throw(Begin(@, "createIssue", fields), Error(createIssueValidate(fields)[1]))
            ELSE makeRequest(Begin(@, "createIssue", fields), "jira", "POST", "/issue",
                             Some(fields), NoParams)]
    /\ UNCHANGED <<clients, serverTotal, lastSet>>

-----------------------------------------------------------------------------
(* getIssue and searchIssues: building the query parameters.               *)

\* Field and expand names are kept as sequences of characters.
Names == {<<"a">>, <<"b", "c">>}
RECURSIVE SeqsUpTo(_, _)
SeqsUpTo(S, n) ==
    IF n = 0 THEN {<<>>}
    ELSE SeqsUpTo(S, n - 1) \cup {Append(q, x) : q \in SeqsUpTo(S, n - 1), x \in S}
NameLists == {None} \cup {Some(q) : q \in SeqsUpTo(Names, MaxNames)}
IssueKeys == {"PROJ-1"}

\* getIssueParams joining with ', ' (the separator of the error messages).
getIssueParams_CommaSpace(options) ==
    [NoParams EXCEPT
        !.expand = IF options.expand # None
                   THEN Some(join(options.expand[1], <<",", " ">>, <<>>)) ELSE None,
        !.fields = IF options.fields # None
                   THEN Some(join(options.fields[1], <<",", " ">>, <<>>)) ELSE None]

\* const params = {}; if (expand) params.expand = expand.join(',');
\* if (fields) params.fields = fields.join(','): an array, even an empty one, is truthy.
getIssueParams(options) ==
    [NoParams EXCEPT
        !.expand = IF options.expand # None THEN Some(join(options.expand[1], <<",">>, <<>>)) ELSE None,
        !.fields = IF options.fields # None THEN Some(join(options.fields[1], <<",">>, <<>>)) ELSE None]

getIssue(c, issueKey, options) ==
    /\ calls[c].pc = "idle"
    /\ calls' = [calls EXCEPT ![c] =
            makeRequest(Begin(@, "getIssue", [issueKey |-> issueKey, options |-> options]),
                        "jira", "GET", "/issue/" \o issueKey, None, getIssueParams(options))]
    /\ UNCHANGED <<clients, serverTotal, lastSet>>

\* searchIssuesParams passing on every maxResults and startAt given, 0 included.
searchIssuesParams_KeepsZero(jql, options) ==
    [jql |-> Some(jql),
     fields |-> IF options.fields # None THEN Some(join(options.fields[1], <<",">>, <<>>)) ELSE None,
     expand |-> IF options.expand # None THEN Some(join(options.expand[1], <<",">>, <<>>)) ELSE None,
     maxResults |-> options.maxResults,
     startAt |-> options.startAt]

\* searchIssues: maxResults and startAt are added only when truthy (not 0).
searchIssuesParams(jql, options) ==
    [jql |-> Some(jql),
     fields |-> IF options.fields # None THEN Some(join(options.fields[1], <<",">>, <<>>)) ELSE None,
     expand |-> IF options.expand # None THEN Some(join(options.expand[1], <<",">>, <<>>)) ELSE None,
     maxResults |-> IF options.maxResults # None /\ options.maxResults[1] # 0
                    THEN options.maxResults ELSE None,
     startAt |-> IF options.startAt # None /\ options.startAt[1] # 0
                 THEN options.startAt ELSE None]

NoOptions == [fields |-> None, expand |-> None, maxResults |-> None, startAt |-> None]

\* The call searchIssues makes of makeRequest.
searchIssuesRequest(call, jql, options) ==
    makeRequest(call, "jira", "GET", "/search", None, searchIssuesParams(jql, options))

SearchOptions ==
    [fields : {None, Some(<< <<"a">> >>)}, expand : {None},
     maxResults : {None, Some(0), Some(1)}, startAt : {None, Some(0), Some(1)}]

searchIssues(c, jql, options) ==
    /\ calls[c].pc = "idle"
    /\ calls' = [calls EXCEPT ![c] =
            searchIssuesRequest(Begin(@, "searchIssues", [jql |-> jql, options |-> options]),
                                jql, options)]
    /\ UNCHANGED <<clients, serverTotal, lastSet>>

\* getCurrentUser sent through the core instance.
getCurrentUser_OnCore(c) ==
    /\ calls[c].pc = "idle"
    /\ calls' = [calls EXCEPT ![c] =
            makeRequest(Begin(@, "getCurrentUser", <<>>), "jira", "GET", "/me", None,
                        NoParams)]
    /\ UNCHANGED <<clients, serverTotal, lastSet>>

getCurrentUser(c) ==
    /\ calls[c].pc = "idle"
    /\ calls' = [calls EXCEPT ![c] =
            makeRequest(Begin(@, "getCurrentUser", <<>>), "atlassian", "GET", "/me", None,
                        NoParams)]
    /\ UNCHANGED <<clients, serverTotal, lastSet>>

-----------------------------------------------------------------------------
(* getEpics: the pagination loop over all epics of a project.              *)

ProjectKeys == {"PROJ"}

\* The local variables of a pagination call.
Locals(startAt, maxResults, userMaxResults, remainingResults, jql, fields) ==
    [startAt |-> startAt, initialStartAt |-> startAt, isLast |-> FALSE,
     MAX_RESULTS |-> maxResults, userMaxResults |-> userMaxResults,
     remainingResults |-> remainingResults, allIssues |-> <<>>, jql |-> jql,
     fields |-> fields]

\* The request of one turn of the loop of getEpics: maxResults only, the
\* loop's startAt is not passed on.
getEpicsRequest(call, loc) ==
    searchIssuesRequest([call EXCEPT !.loc = Some(loc)], loc.jql,
                        [NoOptions EXCEPT !.maxResults = Some(loc.MAX_RESULTS)])

\* while (!isLast) { const result = await this.searchIssues(...) ... } return allEpics
getEpicsLoop(call, loc) ==
    IF ~loc.isLast THEN getEpicsRequest(call, loc)
    ELSE Return([call EXCEPT !.loc = Some(loc)], loc.allIssues)

getEpics(c, projectKey) ==
    /\ calls[c].pc = "idle"
    /\ calls' = [calls EXCEPT ![c] =
            getEpicsLoop(Begin(@, "getEpics", [projectKey |-> projectKey]), Locals(0, MAX_RESULTS, None, Infinity,
                "project = \"" \o projectKey \o "\" AND issuetype = Epic", None))]
    /\ UNCHANGED <<clients, serverTotal, lastSet>>

\* getEpicsTurn going on after an empty page.
getEpicsTurn_EmptyPageGoesOn(loc, issues) ==
    LET last == Len(issues) > 0 /\ Len(issues) < loc.MAX_RESULTS
    IN  [loc EXCEPT !.allIssues = @ \o issues,
                    !.isLast = last,
                    !.startAt = IF last THEN @ ELSE @ + loc.MAX_RESULTS]

\* getEpicsTurn keeping the latest page only (= for push).
getEpicsTurn_Overwrite(loc, issues) ==
    LET last == Len(issues) < loc.MAX_RESULTS
    IN  [loc EXCEPT !.allIssues = issues,
                    !.isLast = last,
                    !.startAt = IF last THEN @ ELSE @ + loc.MAX_RESULTS]

\* The rest of a turn of the loop, once the page has arrived.
getEpicsTurn(loc, issues) ==
    LET last == Len(issues) < loc.MAX_RESULTS
    IN  [loc EXCEPT !.allIssues = @ \o issues,
                    !.isLast = last,
                    !.startAt = IF last THEN @ ELSE @ + loc.MAX_RESULTS]

\* getEpicsPage asking for the next page before the page in flight is taken in.
getEpicsPage_Prefetch(c) ==
    /\ calls[c].pc = "awaiting"
    /\ calls[c].op = "getEpics"
    /\ LET next == getEpicsRequest(calls[c], calls[c].loc[1])
       IN  /\ next.nreq <= MaxRequests
           /\ calls' = [calls EXCEPT ![c] = next]
    /\ UNCHANGED <<clients, serverTotal, lastSet>>

getEpicsPage(c) ==
    /\ calls[c].pc = "awaiting"
    /\ calls[c].op = "getEpics"
    /\ LET data == responseInterceptor(ResponseData(calls[c].req[1], serverTotal))
           next == getEpicsLoop(calls[c], getEpicsTurn(calls[c].loc[1], data.issues))
       IN  /\ next.nreq <= MaxRequests
           /\ calls' = [calls EXCEPT ![c] = next]
    /\ UNCHANGED <<clients, serverTotal, lastSet>>

-----------------------------------------------------------------------------
(* getIssuesForProject: the pagination loop with an optional cap.          *)

\* x || y for an optional number: undefined and 0 are falsy.
FalsyNumber(n) == n = None \/ n[1] = 0

\* const shouldFetchAll = !userMaxResults
shouldFetchAll(loc) == FalsyNumber(loc.userMaxResults)

\* const currentMaxResults = shouldFetchAll ? MAX_RESULTS : Math.min(MAX_RESULTS, remainingResults)
currentMaxResults(loc) ==
    IF shouldFetchAll(loc) THEN loc.MAX_RESULTS
    ELSE Min(loc.MAX_RESULTS, loc.remainingResults)

\* getIssuesForProjectRequest leaving the offset out, as getEpics does.
getIssuesForProjectRequest_NoStartAt(call, loc) ==
    searchIssuesRequest([call EXCEPT !.loc = Some(loc)], loc.jql,
        [NoOptions EXCEPT
            !.maxResults = Some(currentMaxResults(loc)),
            !.fields = IF loc.fields # None /\ Len(loc.fields[1]) > 0
                       THEN loc.fields ELSE None])

\* The request of one turn of the loop.
getIssuesForProjectRequest(call, loc) ==
    searchIssuesRequest([call EXCEPT !.loc = Some(loc)], loc.jql,
        [NoOptions EXCEPT
            !.startAt = Some(loc.startAt),
            !.maxResults = Some(currentMaxResults(loc)),
            !.fields = IF loc.fields # None /\ Len(loc.fields[1]) > 0
                       THEN loc.fields ELSE None])

\* while (!isLast && remainingResults > 0) { ... } return allIssues
getIssuesForProjectLoop(call, loc) ==
    IF ~loc.isLast /\ loc.remainingResults > 0 THEN getIssuesForProjectRequest(call, loc)
    ELSE Return([call EXCEPT !.loc = Some(loc)], loc.allIssues)

GetIssuesOptions(startAts, caps, fieldLists, jqls) ==
    [startAt : startAts, maxResults : caps, fields : fieldLists, jql : jqls]

getIssuesForProject(c, projectKey, options) ==
    /\ calls[c].pc = "idle"
    /\ LET initialStartAt == IF options.startAt = None THEN 0 ELSE options.startAt[1]
           userMaxResults == options.maxResults
           jql == IF options.jql = None \/ options.jql[1] = ""
                  THEN "project = \"" \o projectKey \o "\""
                  ELSE "project = \"" \o projectKey \o "\" AND (" \o options.jql[1] \o ")"
       IN  calls' = [calls EXCEPT ![c] =
                getIssuesForProjectLoop(
                    Begin(@, "getIssuesForProject", [projectKey |-> projectKey, options |-> options]),
                    Locals(initialStartAt,
                           IF FalsyNumber(userMaxResults) THEN MAX_RESULTS ELSE userMaxResults[1],
                           userMaxResults,
                           IF FalsyNumber(userMaxResults) THEN Infinity ELSE userMaxResults[1],
                           jql, options.fields))]
    /\ UNCHANGED <<clients, serverTotal, lastSet>>

\* getIssuesForProjectTurn taking a full page for the last one (<= for <).
getIssuesForProjectTurn_FullPageIsLast(loc, issues) ==
    IF shouldFetchAll(loc)
    THEN LET last == Len(issues) <= currentMaxResults(loc)
         IN  [loc EXCEPT !.allIssues = @ \o issues,
                         !.isLast = last,
                         !.startAt = IF last THEN @ ELSE @ + currentMaxResults(loc)]
    ELSE LET remaining == loc.remainingResults - Len(issues)
             last == Len(issues) <= currentMaxResults(loc) \/ remaining <= 0
         IN  [loc EXCEPT !.allIssues = @ \o issues,
                         !.remainingResults = remaining,
                         !.isLast = last,
                         !.startAt = IF ~last /\ remaining > 0
                                     THEN @ + currentMaxResults(loc) ELSE @]

\* getIssuesForProjectTurn forgetting to count the items received against the cap.
getIssuesForProjectTurn_NoCount(loc, issues) ==
    IF shouldFetchAll(loc)
    THEN LET last == Len(issues) < currentMaxResults(loc)
         IN  [loc EXCEPT !.allIssues = @ \o issues,
                         !.isLast = last,
                         !.startAt = IF last THEN @ ELSE @ + currentMaxResults(loc)]
    ELSE LET remaining == loc.remainingResults
             last == Len(issues) < currentMaxResults(loc) \/ remaining <= 0
         IN  [loc EXCEPT !.allIssues = @ \o issues,
                         !.remainingResults = remaining,
                         !.isLast = last,
                         !.startAt = IF ~last /\ remaining > 0
                                     THEN @ + currentMaxResults(loc) ELSE @]

\* getIssuesForProjectTurn stopping only when the cap is reached, not on a short page.
getIssuesForProjectTurn_NoShortPageStop(loc, issues) ==
    IF shouldFetchAll(loc)
    THEN LET last == Len(issues) < currentMaxResults(loc)
         IN  [loc EXCEPT !.allIssues = @ \o issues,
                         !.isLast = last,
                         !.startAt = IF last THEN @ ELSE @ + currentMaxResults(loc)]
    ELSE LET remaining == loc.remainingResults - Len(issues)
             last == remaining <= 0
         IN  [loc EXCEPT !.allIssues = @ \o issues,
                         !.remainingResults = remaining,
                         !.isLast = last,
                         !.startAt = IF ~last /\ remaining > 0
                                     THEN @ + currentMaxResults(loc) ELSE @]

\* The rest of a turn of the loop, once the page has arrived.
getIssuesForProjectTurn(loc, issues) ==
    IF shouldFetchAll(loc)
    THEN LET last == Len(issues) < currentMaxResults(loc)
         IN  [loc EXCEPT !.allIssues = @ \o issues,
                         !.isLast = last,
                         !.startAt = IF last THEN @ ELSE @ + currentMaxResults(loc)]
    ELSE LET remaining == loc.remainingResults - Len(issues)
             last == Len(issues) < currentMaxResults(loc) \/ remaining <= 0
         IN  [loc EXCEPT !.allIssues = @ \o issues,
                         !.remainingResults = remaining,
                         !.isLast = last,
                         !.startAt = IF ~last /\ remaining > 0
                                     THEN @ + currentMaxResults(loc) ELSE @]

getIssuesForProjectPage(c) ==
    /\ calls[c].pc = "awaiting"
    /\ calls[c].op = "getIssuesForProject"
    /\ LET data == responseInterceptor(ResponseData(calls[c].req[1], serverTotal))
           next == getIssuesForProjectLoop(calls[c],
                        getIssuesForProjectTurn(calls[c].loc[1], data.issues))
       IN  /\ next.nreq <= MaxRequests
           /\ calls' = [calls EXCEPT ![c] = next]
    /\ UNCHANGED <<clients, serverTotal, lastSet>>

-----------------------------------------------------------------------------
(* The board operations (src/unnamed/part_001), on the agile instance.     *)

DefaultBoardsMaxResults == 50
BoardIds == {7}

\* getAllBoards(startAt = 0, maxResults = 50): both are always sent.
getAllBoards(c, startAt, maxResults) ==
    /\ calls[c].pc = "idle"
    /\ calls' = [calls EXCEPT ![c] =
            makeRequest(Begin(@, "getAllBoards", [startAt |-> startAt, maxResults |-> maxResults]),
                        "agile", "GET", "/board", None,
                        [NoParams EXCEPT
                            !.startAt = IF startAt = None THEN Some(0) ELSE startAt,
                            !.maxResults = IF maxResults = None THEN Some(DefaultBoardsMaxResults)
                                           ELSE maxResults])]
    /\ UNCHANGED <<clients, serverTotal, lastSet>>

BoardOptions == [startAt : {None, Some(1)}, maxResults : {None, Some(1)}, jql : {None, Some("x")}]

\* getIssuesForBoard(boardId, options = {}): the options are the query parameters.
getIssuesForBoard(c, boardId, options) ==
    /\ calls[c].pc = "idle"
    /\ calls' = [calls EXCEPT ![c] =
            makeRequest(Begin(@, "getIssuesForBoard", [boardId |-> boardId, options |-> options]),
                        "agile", "GET", "/board/" \o ToString(boardId) \o "/issue", None,
                        [NoParams EXCEPT !.startAt = options.startAt,
                                         !.maxResults = options.maxResults,
                                         !.jql = options.jql])]
    /\ UNCHANGED <<clients, serverTotal, lastSet>>

-----------------------------------------------------------------------------
(* refreshAccessToken: the token exchange, made with the global axios.     *)

\* axios.post(url, data, { headers }) on the global axios: no base URL, none of
\* the instances' default headers, none of their interceptors. A header whose
\* value is undefined is not sent.
axiosPost(call, url, data, headers) ==
    [call EXCEPT !.pc = "awaiting",
                 !.req = Some([family |-> "axios", baseURL |-> "", method |-> "POST",
                               url |-> url, data |-> Some(data), params |-> NoParams,
                               Authorization |-> headers.Authorization,
                               ContentType |-> headers.ContentType,
                               XAtlassianToken |-> headers.XAtlassianToken]),
                 !.nreq = @ + 1]

\* The headers of a post of a plain object: axios serialises it as JSON.
JsonHeaders ==
    [Authorization |-> None, ContentType |-> Some("application/json"), XAtlassianToken |-> None]

RefreshTokens == {"R" \o ToString(i) : i \in 1..MaxTokens}

\* The bodies the token endpoint may answer with: each token absent, empty or
\* present.
TokenResponses ==
    [access_token : {None, Some("")} \cup {Some(t) : t \in Tokens},
     refresh_token : {None, Some("")} \cup {Some(r) : r \in RefreshTokens}]

refreshAccessToken(c, clientId, clientSecret, refreshToken) ==
    /\ calls[c].pc = "idle"
    /\ calls' = [calls EXCEPT ![c] =
            axiosPost(Begin(@, "refreshAccessToken",
                            [clientId |-> clientId, clientSecret |-> clientSecret,
                             refreshToken |-> refreshToken]),
                      "https://auth.atlassian.com/oauth/token",
                      [grant_type |-> "refresh_token", client_id |-> clientId,
                       client_secret |-> clientSecret, refresh_token |-> refreshToken],
                      JsonHeaders)]
    /\ UNCHANGED <<clients, serverTotal, lastSet>>

\* refreshAccessTokenResponse writing the new access token into the three
\* instances before it returns.
refreshAccessTokenResponse_AppliesToken(c, data) ==
    /\ calls[c].pc = "awaiting"
    /\ calls[c].op = "refreshAccessToken"
    /\ calls' = [calls EXCEPT ![c] =
            IF Falsy(data.access_token) \/ Falsy(data.refresh_token)
            THEN Throw([@ EXCEPT !.loc = Some([response |-> [data |-> data]])],
                       Error("Failed to retrieve access token or new refresh token from response."))
            ELSE Return([@ EXCEPT !.loc = Some([response |-> [data |-> data]])], data)]
    /\ clients' = IF Falsy(data.access_token) \/ Falsy(data.refresh_token) THEN clients
                  ELSE [f \in Families |->
                            [clients[f] EXCEPT !.Authorization = Some(Bearer(data.access_token[1]))]]
    /\ UNCHANGED <<serverTotal, lastSet>>

\* refreshAccessTokenResponse checking the access token only.
refreshAccessTokenResponse_AccessTokenOnly(c, data) ==
    /\ calls[c].pc = "awaiting"
    /\ calls[c].op = "refreshAccessToken"
    /\ calls' = [calls EXCEPT ![c] =
            IF Falsy(data.access_token)
            THEN Throw([@ EXCEPT !.loc = Some([response |-> [data |-> data]])],
                       Error("Failed to retrieve access token or new refresh token from response."))
            ELSE Return([@ EXCEPT !.loc = Some([response |-> [data |-> data]])], data)]
    /\ UNCHANGED <<clients, serverTotal, lastSet>>

\* The token endpoint answers: the rest of refreshAccessToken. It throws when
\* either token is falsy, returns response.data otherwise, and writes nothing
\* into the client.
refreshAccessTokenResponse(c, data) ==
    /\ calls[c].pc = "awaiting"
    /\ calls[c].op = "refreshAccessToken"
    /\ calls' = [calls EXCEPT ![c] =
            IF Falsy(data.access_token) \/ Falsy(data.refresh_token)
            THEN Throw([@ EXCEPT !.loc = Some([response |-> [data |-> data]])],
                       Error("Failed to retrieve access token or new refresh token from response."))
            ELSE Return([@ EXCEPT !.loc = Some([response |-> [data |-> data]])], data)]
    /\ UNCHANGED <<clients, serverTotal, lastSet>>

\* The transport error as the caller of a method without a catch block sees it.
Uncaught(error) ==
    [kind |-> "AxiosError", message |-> error.message,
     status |-> IF error.response = None THEN None ELSE Some(error.response[1].status),
     statusText |-> IF error.response = None THEN None ELSE Some(error.response[1].statusText),
     responseData |-> IF error.response = None THEN None ELSE error.response[1].data,
     originalError |-> None, value |-> None]

\* The token exchange fails: the await throws and refreshAccessToken, which has
\* no catch block, rejects with the transport error itself.
\* refreshAccessTokenFailure normalising the error as makeRequest does.
refreshAccessTokenFailure_Normalised(c, errors) ==
    /\ calls[c].pc = "awaiting"
    /\ calls[c].op = "refreshAccessToken"
    /\ \E e \in errors :
        calls' = [calls EXCEPT ![c] =
            Throw([@ EXCEPT !.rejection = Some(e)], makeRequestCatch(responseErrorInterceptor(e)))]
    /\ UNCHANGED <<clients, serverTotal, lastSet>>

refreshAccessTokenFailure(c, errors) ==
    /\ calls[c].pc = "awaiting"
    /\ calls[c].op = "refreshAccessToken"
    /\ \E e \in errors :
        calls' = [calls EXCEPT ![c] = Throw([@ EXCEPT !.rejection = Some(e)], Uncaught(e))]
    /\ UNCHANGED <<clients, serverTotal, lastSet>>

-----------------------------------------------------------------------------
(* addAttachment (src/unnamed/part_001): a multipart upload made with the  *)
(* global axios and the headers the method builds itself.                  *)

FilePaths == {"/tmp/a.txt"}

\* form.getHeaders(): the multipart content type with the boundary of the form.
formGetHeaders == [ContentType |-> Some("multipart/form-data; boundary=b")]

\* { ...form.getHeaders(), 'X-Atlassian-Token': 'no-check',
\*   'Authorization': this.jiraClient.defaults.headers.common['Authorization'] }
addAttachmentHeaders ==
    [ContentType |-> formGetHeaders.ContentType, XAtlassianToken |-> Some("no-check"),
     Authorization |-> clients["jira"].common]

addAttachment(c, issueKey, filePath) ==
    /\ calls[c].pc = "idle"
    /\ calls' = [calls EXCEPT ![c] =
            axiosPost(Begin(@, "addAttachment", [issueKey |-> issueKey, filePath |-> filePath]),
                      clients["jira"].baseURL \o "/issue/" \o issueKey \o "/attachments",
                      [file |-> filePath], addAttachmentHeaders)]
    /\ UNCHANGED <<clients, serverTotal, lastSet>>

\* The upload succeeds: return response.data.
addAttachmentResponse(c) ==
    /\ calls[c].pc = "awaiting"
    /\ calls[c].op = "addAttachment"
    /\ calls' = [calls EXCEPT ![c] = Return(@, ResponseData(calls[c].req[1], serverTotal))]
    /\ UNCHANGED <<clients, serverTotal, lastSet>>

\* The upload fails: the catch block of addAttachment throws a JiraApiError
\* with a fixed message.
addAttachmentFailure(c, errors) ==
    /\ calls[c].pc = "awaiting"
    /\ calls[c].op = "addAttachment"
    /\ \E e \in errors :
        calls' = [calls EXCEPT ![c] =
            [@ EXCEPT !.pc = "done", !.req = None, !.args = None,
                      !.rejection = Some(e),
                      !.result = Some(JiraApiError(
                            "Failed to add attachment",
                            IF e.response = None THEN None ELSE Some(e.response[1].status),
                            IF e.response = None THEN None ELSE Some(e.response[1].statusText),
                            IF e.response = None THEN None ELSE e.response[1].data,
                            Some(e)))]]
    /\ UNCHANGED <<clients, serverTotal, lastSet>>

-----------------------------------------------------------------------------
(* The end of a request, and of a call.                                    *)

PagedOps == {"getEpics", "getIssuesForProject"}

\* The transport answers a request of makeRequest with a success: makeRequest
\* returns response.data.
respond(c) ==
    /\ calls[c].pc = "awaiting"
    /\ calls[c].req[1].family \in Families
    /\ calls[c].op \notin PagedOps
    /\ calls' = [calls EXCEPT ![c] =
            Return(@, responseInterceptor(ResponseData(calls[c].req[1], serverTotal)))]
    /\ UNCHANGED <<clients, serverTotal, lastSet>>

\* fail with the pagination loops catching the error of a page fetch and
\* returning the items accumulated so far.
fail_ReturnsPartial(c, errors) ==
    /\ calls[c].pc = "awaiting"
    /\ calls[c].req[1].family \in Families
    /\ \E e \in errors :
        calls' = [calls EXCEPT ![c] =
            [@ EXCEPT !.pc = "done", !.req = None, !.loc = None, !.args = None,
                      !.rejection = Some(e),
                      !.result = IF calls[c].op \in PagedOps
                                 THEN Some(Returned(calls[c].loc[1].allIssues))
                                 ELSE Some(makeRequestCatch(responseErrorInterceptor(e)))]]
    /\ UNCHANGED <<clients, serverTotal, lastSet>>

\* The transport fails a request of makeRequest: makeRequest throws what its
\* catch block builds, and no method catches it.
fail(c, errors) ==
    /\ calls[c].pc = "awaiting"
    /\ calls[c].req[1].family \in Families
    /\ \E e \in errors :
        calls' = [calls EXCEPT ![c] =
            [@ EXCEPT !.pc = "done", !.req = None, !.loc = None, !.args = None,
                      !.rejection = Some(e),
                      !.result = Some(makeRequestCatch(responseErrorInterceptor(e)))]]
    /\ UNCHANGED <<clients, serverTotal, lastSet>>

\* The caller takes the outcome of the call.
settle(c) ==
    /\ calls[c].pc = "done"
    /\ calls' = [calls EXCEPT ![c] = IdleCall]
    /\ UNCHANGED <<clients, serverTotal, lastSet>>

-----------------------------------------------------------------------------
(* Specifications.                                                         *)

\* The caller whose calls these specifications follow.
Caller == CHOOSE c \in Calls : \A d \in Calls : c <= d

SetAccessToken == \E t \in Tokens : setAccessToken(t)
CreateIssue == \E d \in CreateIssueRequests : createIssue(Caller, d)
GetIssue ==
    \E k \in IssueKeys, e \in NameLists, f \in NameLists :
        getIssue(Caller, k, [expand |-> e, fields |-> f])
SearchIssues == \E o \in SearchOptions : searchIssues(Caller, "project = \"PROJ\"", o)
GetCurrentUser == getCurrentUser(Caller)
GetEpics == \E k \in ProjectKeys : getEpics(Caller, k)
GetIssuesForProject ==
    \E k \in ProjectKeys :
        \E o \in GetIssuesOptions({None, Some(1)}, {None} \cup {Some(n) : n \in 0..MaxCap},
                                  {None, Some(<<>>), Some(<< <<"a">> >>)}, {None, Some("x")}) :
            getIssuesForProject(Caller, k, o)
RefreshAccessToken == \E r \in RefreshTokens : refreshAccessToken(Caller, "id", "secret", r)
RefreshAccessTokenResponse == \E d \in TokenResponses : refreshAccessTokenResponse(Caller, d)
RefreshAccessTokenFailure == refreshAccessTokenFailure(Caller, ErrorSamples)
GetAllBoards ==
    \E s \in {None, Some(1)}, n \in {None, Some(1)} : getAllBoards(Caller, s, n)
GetIssuesForBoard == \E b \in BoardIds, o \in BoardOptions : getIssuesForBoard(Caller, b, o)
AddAttachment == \E k \in IssueKeys, p \in FilePaths : addAttachment(Caller, k, p)
AddAttachmentResponse == addAttachmentResponse(Caller)
AddAttachmentFailure == addAttachmentFailure(Caller, ErrorSamples)
GetEpicsPage == getEpicsPage(Caller)
GetIssuesForProjectPage == getIssuesForProjectPage(Caller)
Respond == respond(Caller)
Fail == fail(Caller, AllErrors)
Settle == settle(Caller)

Next ==
    \/ SetAccessToken
    \/ CreateIssue
    \/ GetIssue
    \/ SearchIssues
    \/ GetCurrentUser
    \/ GetEpics
    \/ GetIssuesForProject
    \/ GetAllBoards
    \/ GetIssuesForBoard
    \/ RefreshAccessToken
    \/ RefreshAccessTokenResponse
    \/ RefreshAccessTokenFailure
    \/ AddAttachment
    \/ AddAttachmentResponse
    \/ AddAttachmentFailure
    \/ GetEpicsPage
    \/ GetIssuesForProjectPage
    \/ Respond
    \/ Fail
    \/ Settle

Spec == Init /\ [][Next]_vars

\* Paging: the two pagination loops against a service holding 0..MaxItems
\* items, with caps below, at and above the page size.
PagingCaps == {1, MaxCap, MAX_RESULTS - 1, MAX_RESULTS, MAX_RESULTS + 1, 2 * MAX_RESULTS}

GetIssuesForProjectPaging ==
    \E k \in ProjectKeys :
        \E o \in GetIssuesOptions({None}, {None} \cup {Some(n) : n \in PagingCaps}, {None}, {None}) :
            getIssuesForProject(Caller, k, o)
FailPage == fail(Caller, ErrorSamples)

InitPaging == InitWith(0..MaxItems)

NextPaging ==
    \/ GetEpics
    \/ GetIssuesForProjectPaging
    \/ GetEpicsPage
    \/ GetIssuesForProjectPage
    \/ FailPage
    \/ Settle

SpecPaging == InitPaging /\ [][NextPaging]_vars

\* Concurrency: every caller has a call of its own, and the calls and the token
\* updates interleave freely.
AnyGetCurrentUser == \E c \in Calls : getCurrentUser(c)
AnySearchIssues == \E c \in Calls : searchIssues(c, "project = \"PROJ\"", NoOptions)
AnyRespond == \E c \in Calls : respond(c)
AnyFail == \E c \in Calls : fail(c, ErrorSamples)
AnySettle == \E c \in Calls : settle(c)

AnyAddAttachment == \E c \in Calls, k \in IssueKeys, p \in FilePaths : addAttachment(c, k, p)
AnyAddAttachmentResponse == \E c \in Calls : addAttachmentResponse(c)
AnyAddAttachmentFailure == \E c \in Calls : addAttachmentFailure(c, ErrorSamples)

NextConcurrent ==
    \/ SetAccessToken
    \/ AnyGetCurrentUser
    \/ AnySearchIssues
    \/ AnyAddAttachment
    \/ AnyAddAttachmentResponse
    \/ AnyAddAttachmentFailure
    \/ AnyRespond
    \/ AnyFail
    \/ AnySettle

SpecConcurrent == Init /\ [][NextConcurrent]_vars

\* Concurrent paging: every caller runs a pagination call of its own against
\* a service holding no item, a page less one, a page, or a page and one.
ConcurrentTotals == {0, MAX_RESULTS - 1, MAX_RESULTS, MAX_RESULTS + 1}

AnyGetEpics == \E c \in Calls, k \in ProjectKeys : getEpics(c, k)
AnyGetIssuesForProject ==
    \E c \in Calls, k \in ProjectKeys :
        \E o \in GetIssuesOptions({None}, {None}, {None}, {None}) : getIssuesForProject(c, k, o)
AnyGetEpicsPage == \E c \in Calls : getEpicsPage(c)
AnyGetIssuesForProjectPage == \E c \in Calls : getIssuesForProjectPage(c)
AnyFailPage == \E c \in Calls : fail(c, {AxiosError("Network Error", None)})

InitConcurrentPaging == InitWith(ConcurrentTotals)

NextConcurrentPaging ==
    \/ AnyGetEpics
    \/ AnyGetIssuesForProject
    \/ AnyGetEpicsPage
    \/ AnyGetIssuesForProjectPage
    \/ AnyFailPage
    \/ AnySettle

SpecConcurrentPaging == InitConcurrentPaging /\ [][NextConcurrentPaging]_vars

-----------------------------------------------------------------------------
(* Properties.                                                             *)

\* C1: after setAccessToken(T2), every request issued through any of the three
\* families carries Authorization = 'Bearer T2'. A request is issued in a step
\* that raises the call's count of requests.
C1_RequestsCarryTheTokenSet ==
    [][\A c \in Calls :
        (/\ calls'[c].nreq > calls[c].nreq
         /\ calls'[c].req[1].family \in Families
         /\ lastSet # None)
            => calls'[c].req[1].Authorization = Some(Bearer(lastSet[1]))]_vars

\* The fields of a creation payload that are present (defined and not empty).
HasProjectKey(f) ==
    /\ f.project # None
    /\ f.project[1].key # None
    /\ f.project[1].key[1] # ""
HasIssueType(f) ==
    /\ f.issuetype # None
    /\ \/ f.issuetype[1].name \notin {None, Some("")}
       \/ f.issuetype[1].id \notin {None, Some("")}
HasSummary(f) == f.summary \notin {None, Some("")}

Rejected(call, message) ==
    /\ call.pc = "done"
    /\ call.result[1].kind = "Error"
    /\ call.result[1].message = message

\* C2: createIssue rejects with the message of the first missing field in the
\* order project.key, issuetype, summary, whatever else is missing, and with
\* none of these messages when the three are present.
C2_FirstMissingFieldWins ==
    \A c \in Calls :
        (calls[c].op = "createIssue" /\ calls[c].args # None) =>
            LET f == calls[c].args[1]
            IN  IF ~HasProjectKey(f) THEN Rejected(calls[c], "Missing required field: project.key")
                ELSE IF ~HasIssueType(f)
                    THEN Rejected(calls[c], "Missing required field: issuetype (name or id)")
                ELSE IF ~HasSummary(f) THEN Rejected(calls[c], "Missing required field: summary")
                ELSE calls[c].pc = "awaiting" \/ calls[c].result[1].kind = "ok"

\* A payload with project.key present and both issuetype and summary missing is
\* rejected with the message naming issuetype.
C2_Witness ==
    \E c \in Calls :
        /\ calls[c].op = "createIssue"
        /\ calls[c].args # None
        /\ HasProjectKey(calls[c].args[1])
        /\ ~HasIssueType(calls[c].args[1])
        /\ ~HasSummary(calls[c].args[1])
        /\ Rejected(calls[c], "Missing required field: issuetype (name or id)")

\* C3: a createIssue call rejected by validation has issued no request.
C3_NoRequestOnValidationError ==
    \A c \in Calls :
        (calls[c].op = "createIssue" /\ calls[c].pc = "done" /\ calls[c].result[1].kind = "Error")
            => calls[c].nreq = 0 /\ calls[c].req = None

C3_Witness ==
    \E c \in Calls :
        /\ calls[c].op = "createIssue"
        /\ calls[c].pc = "done"
        /\ calls[c].result[1].kind = "Error"
        /\ calls[c].result[1].message = "Missing required field: summary"
        /\ calls[c].nreq = 0

\* C4: the JiraApiError thrown for a failed dispatch carries the status, the
\* status text and the body of the transport error's response when there is
\* one, none of them when there is none, and the transport error itself.
C4_ErrorCarriesTheResponse ==
    \A c \in Calls :
        (/\ calls[c].pc = "done"
         /\ calls[c].rejection # None
         /\ calls[c].result[1].kind = "JiraApiError") =>
            LET e == calls[c].rejection[1]
                r == calls[c].result[1]
            IN  /\ r.originalError = Some(e)
                /\ e.response = None =>
                        r.status = None /\ r.statusText = None /\ r.responseData = None
                /\ e.response # None =>
                        /\ r.status = Some(e.response[1].status)
                        /\ r.statusText = Some(e.response[1].statusText)
                        /\ r.responseData = e.response[1].data

\* A 404 answer surfaces as a JiraApiError with status 404.
C4_Witness ==
    \E c \in Calls :
        /\ calls[c].pc = "done"
        /\ calls[c].rejection # None
        /\ calls[c].rejection[1].response # None
        /\ calls[c].rejection[1].response[1].status = 404
        /\ calls[c].result[1].kind = "JiraApiError"
        /\ calls[c].result[1].status = Some(404)
        /\ calls[c].result[1].statusText = Some("Not Found")

\* C5: every transport failure of a request made through makeRequest reaches
\* the caller as a thrown JiraApiError,
\* whatever the shape of the body of the error response.
C5_EveryFailureIsAJiraApiError ==
    \A c \in Calls :
        (/\ calls[c].pc = "done"
         /\ calls[c].rejection # None
         /\ calls[c].op # "refreshAccessToken")
            => calls[c].result[1].kind = "JiraApiError"

\* The items the service holds, in its order.
ServerItems == [i \in 1..serverTotal |-> i]

IsPrefix(p, q) == Len(p) <= Len(q) /\ \A i \in 1..Len(p) : p[i] = q[i]

\* A call of getIssuesForProject from offset 0 that has returned.
ProjectCallReturned(call) ==
    /\ call.op = "getIssuesForProject"
    /\ call.pc = "done"
    /\ call.result[1].kind = "ok"
    /\ call.args[1].options.startAt \in {None, Some(0)}

\* C6: without a cap, from offset 0, getIssuesForProject returns exactly the M
\* items of the service, in floor(M / 1000) + 1 search requests.
C6_UnboundedLengthAndRequests ==
    \A c \in Calls :
        (ProjectCallReturned(calls[c]) /\ calls[c].args[1].options.maxResults = None) =>
            /\ Len(calls[c].result[1].value[1]) = serverTotal
            /\ calls[c].nreq = (serverTotal \div 1000) + 1

\* M = N: two requests, the second page empty.
C6_Witness ==
    \E c \in Calls :
        /\ ProjectCallReturned(calls[c])
        /\ calls[c].args[1].options.maxResults = None
        /\ serverTotal = 1000
        /\ Len(calls[c].result[1].value[1]) = 1000
        /\ calls[c].nreq = 2

\* C7: getEpics returns exactly the M epics of the service, each once and in
\* the service's order: what it has accumulated is at every moment a prefix of
\* them, and what it returns is all of them.
C7_EpicsOnceInServerOrder ==
    \A c \in Calls :
        (calls[c].op = "getEpics" /\ calls[c].loc # None) =>
            /\ IsPrefix(calls[c].loc[1].allIssues, ServerItems)
            /\ (calls[c].pc = "done" /\ calls[c].result[1].kind = "ok")
                    => calls[c].result[1].value[1] = ServerItems

\* C8: with a cap C >= 1 and at least C items on the service,
\* getIssuesForProject returns exactly C items.
C8_CapReached ==
    \A c \in Calls :
        (/\ ProjectCallReturned(calls[c])
         /\ calls[c].args[1].options.maxResults # None
         /\ calls[c].args[1].options.maxResults[1] >= 1
         /\ serverTotal >= calls[c].args[1].options.maxResults[1])
            => Len(calls[c].result[1].value[1]) = calls[c].args[1].options.maxResults[1]

C8_Witness ==
    \E c \in Calls :
        /\ ProjectCallReturned(calls[c])
        /\ calls[c].args[1].options.maxResults = Some(MaxCap)
        /\ serverTotal > MaxCap
        /\ Len(calls[c].result[1].value[1]) = MaxCap

\* A call of getIssuesForProject from offset 0 with a cap above the number of
\* items the service holds.
CapAboveTotal(call) ==
    /\ call.op = "getIssuesForProject"
    /\ call.args # None
    /\ call.args[1].options.startAt \in {None, Some(0)}
    /\ call.args[1].options.maxResults # None
    /\ call.args[1].options.maxResults[1] > serverTotal

\* C9: with a cap above the M items on the service, getIssuesForProject returns
\* exactly M items; the short first page ends the loop, so no second request
\* is issued.
C9_ServerExhausted ==
    \A c \in Calls :
        CapAboveTotal(calls[c]) =>
            /\ calls[c].nreq <= 1
            /\ (calls[c].pc = "done" /\ calls[c].result[1].kind = "ok")
                    => Len(calls[c].result[1].value[1]) = serverTotal

C9_Witness ==
    \E c \in Calls :
        /\ CapAboveTotal(calls[c])
        /\ serverTotal = 999
        /\ calls[c].args[1].options.maxResults = Some(1001)
        /\ calls[c].pc = "done"
        /\ calls[c].result[1].kind = "ok"
        /\ Len(calls[c].result[1].value[1]) = 999

\* The pieces of a string between the occurrences of a character.
RECURSIVE Split(_, _)
Split(s, ch) ==
    IF \A i \in 1..Len(s) : s[i] # ch THEN <<s>>
    ELSE LET k == CHOOSE i \in 1..Len(s) : s[i] = ch /\ \A j \in 1..(i - 1) : s[j] # ch
         IN  <<SubSeq(s, 1, k - 1)>> \o Split(SubSeq(s, k + 1, Len(s)), ch)

\* A query parameter is the comma-joined string of the names given: absent when
\* no array is given, one string that splits at its commas into the names.
CommaJoined(param, names) ==
    IF names = None THEN param = None
    ELSE /\ param # None
         /\ IF names[1] = <<>> THEN param[1] = <<>> ELSE Split(param[1], ",") = names[1]

\* C10: getIssue sends GET /issue/<key> with fields and expand each one
\* comma-joined string of the names given, and sends neither when not given.
C10_GetIssueParams ==
    \A c \in Calls :
        (calls[c].op = "getIssue" /\ calls[c].pc = "awaiting") =>
            LET r == calls[c].req[1]
                a == calls[c].args[1]
            IN  /\ r.family = "jira"
                /\ r.method = "GET"
                /\ r.url = "/issue/" \o a.issueKey
                /\ r.params.jql = None /\ r.params.maxResults = None /\ r.params.startAt = None
                /\ CommaJoined(r.params.fields, a.options.fields)
                /\ CommaJoined(r.params.expand, a.options.expand)

\* fields = [a, bc], expand = [a]: fields=a,bc and expand=a are sent.
C10_Witness ==
    \E c \in Calls :
        /\ calls[c].op = "getIssue"
        /\ calls[c].pc = "awaiting"
        /\ calls[c].args[1].options.fields = Some(<< <<"a">>, <<"b", "c">> >>)
        /\ calls[c].args[1].options.expand = Some(<< <<"a">> >>)
        /\ calls[c].req[1].params.fields = Some(<<"a", ",", "b", "c">>)
        /\ calls[c].req[1].params.expand = Some(<<"a">>)

\* The Authorization header a request through each of the instances would carry.
TokenInUse == [f \in Families |-> RequestAuthorization(clients[f])]

\* A call of refreshAccessToken that has returned the token pair of the response.
RefreshReturned(call) ==
    /\ call.op = "refreshAccessToken"
    /\ call.pc = "done"
    /\ call.result[1].kind = "ok"

\* C11: only setAccessToken writes the token: every step that is not a
\* setAccessToken (a refreshAccessToken that returns or throws, any other
\* operation, its success or its failure) leaves the three instances, and so
\* the token their next requests carry, as they were.
C11_OnlySetAccessTokenWritesTheToken ==
    [][SetAccessToken \/ (clients' = clients /\ lastSet' = lastSet)]_vars

\* refreshAccessToken has returned a new access token, setAccessToken has not
\* been called, and the instances still hold the old one.
C11_Witness ==
    \E c \in Calls :
        /\ RefreshReturned(calls[c])
        /\ lastSet = None
        /\ \A f \in Families :
                TokenInUse[f] # Some(Bearer(calls[c].result[1].value[1].access_token[1]))

\* C12: refreshAccessToken throws the malformed-response error when the
\* response lacks access_token or refresh_token, or holds an empty one, and
\* returns the body of the response, with both tokens, otherwise.
C12_RefreshNeedsBothTokens ==
    \A c \in Calls :
        (calls[c].op = "refreshAccessToken" /\ calls[c].pc = "done" /\ calls[c].loc # None) =>
            LET data == calls[c].loc[1].response.data
            IN  IF data.access_token \in {None, Some("")} \/ data.refresh_token \in {None, Some("")}
                THEN Rejected(calls[c],
                        "Failed to retrieve access token or new refresh token from response.")
                ELSE /\ calls[c].result[1].kind = "ok"
                     /\ calls[c].result[1].value = Some(data)

\* A response with an access token and no refresh token is rejected.
C12_Witness ==
    \E c \in Calls :
        /\ calls[c].op = "refreshAccessToken"
        /\ calls[c].pc = "done"
        /\ calls[c].loc # None
        /\ calls[c].loc[1].response.data.access_token \notin {None, Some("")}
        /\ calls[c].loc[1].response.data.refresh_token = None
        /\ Rejected(calls[c], "Failed to retrieve access token or new refresh token from response.")

\* The token of the session: the one given to the constructor until
\* setAccessToken is called, the one last given to setAccessToken since.
ConstructionToken == CHOOSE t \in Tokens : clients["jira"].Authorization = Some(Bearer(t))
SessionToken == IF lastSet = None THEN ConstructionToken ELSE lastSet[1]

\* A request in flight keeps the Authorization header it was issued with.
HeaderKeptInFlight ==
    [][\A c \in Calls :
        (calls[c].pc = "awaiting" /\ calls'[c].pc = "awaiting" /\ calls'[c].nreq = calls[c].nreq)
            => calls'[c].req[1].Authorization = calls[c].req[1].Authorization]_vars

\* C13: a request is issued with 'Bearer T1', T1 the token of the session at
\* that moment, and keeps that header while it is in flight, whatever calls of
\* setAccessToken and other requests interleave with it.
C13_HeaderReadOnceAtIssue ==
    [][\A c \in Calls :
        /\ (calls'[c].nreq > calls[c].nreq /\ calls'[c].req[1].family \in Families)
                => calls'[c].req[1].Authorization = Some(Bearer(SessionToken))
        /\ (calls[c].pc = "awaiting" /\ calls'[c].pc = "awaiting" /\ calls'[c].nreq = calls[c].nreq)
                => calls'[c].req[1].Authorization = calls[c].req[1].Authorization]_vars

\* C14: every attachment upload is sent with Authorization = 'Bearer T', T the
\* token of the session (the constructor's until setAccessToken is called, the
\* one last set since), with X-Atlassian-Token, and with the multipart content
\* type of the form, not the JSON one.
C14_AttachmentUploadIsAuthorized ==
    \A c \in Calls :
        (calls[c].op = "addAttachment" /\ calls[c].pc = "awaiting") =>
            /\ calls[c].req[1].Authorization = Some(Bearer(SessionToken))
            /\ calls[c].req[1].XAtlassianToken = Some("no-check")
            /\ calls[c].req[1].ContentType = formGetHeaders.ContentType
            /\ calls[c].req[1].ContentType # Some("application/json")

\* C15: a JiraApiError thrown for a failed request exposes, next to message,
\* status and statusText, the properties isJiraApiError = true and details =
\* the body of the error response.
C15_ErrorExposesTheDocumentedFields ==
    \A c \in Calls :
        (/\ calls[c].pc = "done"
         /\ calls[c].rejection # None
         /\ calls[c].result[1].kind = "JiraApiError") =>
            LET e == calls[c].rejection[1]
                r == calls[c].result[1]
            IN  /\ JiraApiErrorProperty(r, "message") = Some(r.message)
                /\ JiraApiErrorProperty(r, "status") = r.status
                /\ JiraApiErrorProperty(r, "statusText") = r.statusText
                /\ JiraApiErrorProperty(r, "isJiraApiError") = Some(TRUE)
                /\ e.response # None => JiraApiErrorProperty(r, "details") = e.response[1].data

\* The offset a search request asks for: an omitted startAt counts as 0.
EffectiveStartAt(req) == IF req.params.startAt = None THEN 0 ELSE req.params.startAt[1]

\* C16: getEpics terminates for every number M of epics. The service answers
\* equal requests equally and the loop decides on the answer alone, so a turn
\* that repeats the request of the turn before it is repeated for ever: a
\* terminating loop never sends the same request twice in a row.
C16_GetEpicsNeverRepeatsARequest ==
    [][\A c \in Calls :
        (/\ calls[c].op = "getEpics"
         /\ calls[c].pc = "awaiting"
         /\ calls'[c].nreq > calls[c].nreq)
            => calls'[c].req # calls[c].req]_vars

\* C17: in getEpics and in getIssuesForProject without a cap, the k-th search
\* request of a call with start offset s is sent with the effective offset
\* s + (k - 1) * N, N the page size.
C17_OffsetAdvancesByThePageSize ==
    \A c \in Calls :
        (/\ calls[c].pc = "awaiting"
         /\ \/ calls[c].op = "getEpics"
            \/ calls[c].op = "getIssuesForProject" /\ FalsyNumber(calls[c].args[1].options.maxResults))
            =>
            LET s == calls[c].loc[1].initialStartAt
                k == calls[c].nreq
            IN  EffectiveStartAt(calls[c].req[1]) = s + (k - 1) * MAX_RESULTS

\* C18: with a cap C, every search request of getIssuesForProject is sent with
\* maxResults = min(1000, items still needed), so never with more than 1000.
C18_PageSizeAtMostTheConstant ==
    \A c \in Calls :
        (/\ calls[c].op = "getIssuesForProject"
         /\ calls[c].pc = "awaiting"
         /\ ~FalsyNumber(calls[c].args[1].options.maxResults)) =>
            LET needed == calls[c].args[1].options.maxResults[1]
                            - Len(calls[c].loc[1].allIssues)
            IN  /\ calls[c].req[1].params.maxResults = Some(Min(MAX_RESULTS, needed))
                /\ calls[c].req[1].params.maxResults[1] <= MAX_RESULTS

\* C19: when the k-th page fetch of a pagination call fails, the call rejects
\* with the error that fetch threw, returns no items, and sends no request
\* again: its count of requests stays k until the caller takes the rejection.
C19_PageFailureEndsTheCall ==
    [][\A c \in Calls :
        /\ (/\ calls[c].op \in PagedOps
            /\ calls[c].pc = "awaiting"
            /\ calls'[c].rejection # None) =>
                /\ calls'[c].pc = "done"
                /\ calls'[c].result = Some(makeRequestCatch(calls'[c].rejection[1]))
                /\ calls'[c].result[1].kind # "ok"
                /\ calls'[c].result[1].value = None
                /\ calls'[c].req = None
                /\ calls'[c].nreq = calls[c].nreq
        /\ (/\ calls[c].op \in PagedOps
            /\ calls[c].pc = "done"
            /\ calls[c].rejection # None) =>
                calls'[c] \in {calls[c], IdleCall}]_vars

\* The second page fetch of getIssuesForProject, after a full first page, has
\* failed and the call is rejected.
C19_Witness ==
    \E c \in Calls :
        /\ calls[c].op = "getIssuesForProject"
        /\ calls[c].pc = "done"
        /\ calls[c].rejection # None
        /\ calls[c].nreq = 2
        /\ calls[c].result[1].kind = "JiraApiError"
        /\ calls[c].result[1].value = None

\* C20: every page received is appended to what has been accumulated, which
\* is empty when the call starts and otherwise left as it is; what the call
\* returns is what it has accumulated. So the accumulated sequence is at every
\* step the concatenation of the pages received, in the order of the fetches.
C20_AccumulatedIsTheConcatenation ==
    [][\A c \in Calls :
        /\ (calls[c].pc = "idle" /\ calls'[c].op \in PagedOps)
                => calls'[c].loc[1].allIssues = <<>>
        /\ (calls[c].op \in PagedOps /\ calls[c].pc = "awaiting" /\ calls'[c].loc # None) =>
                LET page == ResponseData(calls[c].req[1], serverTotal).issues
                IN  \/ calls'[c] = calls[c]
                    \/ /\ calls'[c].loc[1].allIssues = calls[c].loc[1].allIssues \o page
                       /\ calls'[c].pc = "done"
                            => calls'[c].result[1].value = Some(calls'[c].loc[1].allIssues)]_vars

\* getIssuesForProject has returned the 2001 items of the service, received
\* in three pages of 1000, 1000 and 1 items.
C20_Witness ==
    \E c \in Calls :
        /\ ProjectCallReturned(calls[c])
        /\ calls[c].args[1].options.maxResults = None
        /\ calls[c].nreq = 3
        /\ calls[c].result[1].value[1] = ServerItems
        /\ Len(calls[c].result[1].value[1]) = 2 * MAX_RESULTS + 1

\* C21: a pagination call sends its requests one at a time: a further request
\* is sent only by the step that takes in the answer to the request in flight
\* (the page is appended first), one request per step, whatever the other
\* callers do meanwhile.
C21_OnePageRequestInFlight ==
    [][\A c \in Calls :
        (/\ calls[c].op \in PagedOps
         /\ calls[c].nreq >= 1
         /\ calls'[c].nreq > calls[c].nreq) =>
            /\ calls[c].pc = "awaiting"
            /\ calls'[c].pc = "awaiting"
            /\ calls'[c].nreq = calls[c].nreq + 1
            /\ calls'[c].loc[1].allIssues =
                    calls[c].loc[1].allIssues
                        \o ResponseData(calls[c].req[1], serverTotal).issues]_vars

\* A call waits for its second page while another caller's call waits for a page.
C21_Witness ==
    \E c \in Calls, d \in Calls :
        /\ c # d
        /\ calls[c].op \in PagedOps
        /\ calls[c].pc = "awaiting"
        /\ calls[c].nreq = 2
        /\ Len(calls[c].loc[1].allIssues) = MAX_RESULTS
        /\ calls[d].op \in PagedOps
        /\ calls[d].pc = "awaiting"

\* A pagination call whose first page is empty: the service holds no item at
\* or after the offset the call starts from.
FirstPageEmpty(call) ==
    /\ call.op \in PagedOps
    /\ call.loc # None
    /\ serverTotal <= call.loc[1].initialStartAt

\* C22: when the first page is empty the call sends one search request and
\* then returns the empty sequence, with no error.
C22_EmptyFirstPage ==
    \A c \in Calls :
        FirstPageEmpty(calls[c]) =>
            /\ calls[c].nreq = 1
            /\ calls[c].pc \in {"awaiting", "done"}
            /\ calls[c].pc = "done" =>
                    /\ calls[c].result[1].kind = "ok"
                    /\ calls[c].result[1].value = Some(<<>>)

\* getEpics against a service without epics, and getIssuesForProject started
\* at the end of the items, return the empty sequence after one request.
C22_Witness ==
    \E c \in Calls :
        /\ FirstPageEmpty(calls[c])
        /\ \/ calls[c].op = "getEpics" /\ serverTotal = 0
           \/ calls[c].op = "getIssuesForProject" /\ serverTotal > 0
        /\ calls[c].pc = "done"
        /\ calls[c].nreq = 1
        /\ calls[c].result[1].value = Some(<<>>)

\* A call whose request, dispatched by makeRequest, has failed and for which
\* makeRequest has thrown a JiraApiError.
DispatchFailed(call) ==
    /\ call.pc = "done"
    /\ call.rejection # None
    /\ call.op \notin {"addAttachment", "refreshAccessToken"}
    /\ call.result[1].kind = "JiraApiError"

\* The first text of a list that is not empty.
RECURSIVE FirstNonEmpty(_)
FirstNonEmpty(texts) ==
    IF Len(texts) = 1 \/ Head(texts) # "" THEN Head(texts) ELSE FirstNonEmpty(Tail(texts))

\* C23: the message of the JiraApiError is the first non-empty one of: the
\* errorMessages of the body joined with ', ', the message of the body, the
\* message of the transport error, 'An unknown Jira API error occurred'.
C23_MessagePrecedence ==
    \A c \in Calls :
        DispatchFailed(calls[c]) =>
            LET e == calls[c].rejection[1]
                body == IF e.response = None THEN None ELSE e.response[1].data
                joined == IF body = None \/ body[1].errorMessages.t # "array" THEN ""
                          ELSE join(body[1].errorMessages.v, ", ", "")
                bodyMessage == IF body = None \/ body[1].message = None THEN ""
                               ELSE body[1].message[1]
            IN  calls[c].result[1].message =
                    FirstNonEmpty(<<joined, bodyMessage, e.message,
                                    "An unknown Jira API error occurred">>)

\* errorMessages = ['e1', 'e2'] wins over the message of the body and over the
\* message of the transport error.
C23_Witness ==
    \E c \in Calls :
        /\ DispatchFailed(calls[c])
        /\ calls[c].rejection[1].message = "Request failed"
        /\ calls[c].rejection[1].response # None
        /\ calls[c].rejection[1].response[1].data # None
        /\ calls[c].rejection[1].response[1].data[1].errorMessages = Array(<<"e1", "e2">>)
        /\ calls[c].rejection[1].response[1].data[1].message = Some("m")
        /\ calls[c].result[1].message = "e1, e2"

\* The operations that send one request.
SingleRequestOps ==
    {"createIssue", "getIssue", "searchIssues", "getCurrentUser", "getAllBoards",
     "getIssuesForBoard", "addAttachment", "refreshAccessToken"}

\* A createIssue call rejected by its validation, before any dispatch.
RejectedBeforeDispatch(call) ==
    /\ call.op = "createIssue"
    /\ call.pc = "done"
    /\ call.result[1].kind = "Error"

\* C24: a call of a single-request operation sends one request: one is in
\* flight while it waits, and one has been sent when it has returned or has
\* failed; never a second one.
C24_OneRequestPerCall ==
    \A c \in Calls :
        calls[c].op \in SingleRequestOps =>
            /\ calls[c].nreq <= 1
            /\ (calls[c].pc = "awaiting" \/ (calls[c].pc = "done" /\ ~RejectedBeforeDispatch(calls[c])))
                    => calls[c].nreq = 1

\* A request has failed, the call is rejected, and one request was sent.
C24_Witness ==
    \E c \in Calls :
        /\ calls[c].op \in SingleRequestOps
        /\ calls[c].pc = "done"
        /\ calls[c].rejection # None
        /\ calls[c].nreq = 1

\* setAccessToken writes the three instances in one step: they hold the same
\* value under common, and their requests carry the same header.
InstancesWrittenTogether ==
    \A f \in Families, g \in Families :
        /\ clients[f].common = clients[g].common
        /\ TokenInUse[f] = TokenInUse[g]

\* C25: at every moment the requests to the three families would carry the
\* same token: never the new one to one family and the old one to another,
\* be it a request through an instance or the upload of addAttachment to the
\* core API.
C25_FamiliesHoldTheSameToken ==
    /\ InstancesWrittenTogether
    /\ lastSet # None =>
            \A f \in Families : addAttachmentHeaders.Authorization = TokenInUse[f]

\* The instance each operation is bound to, and the base URL of each instance.
FamilyOf(op) ==
    CASE op = "getCurrentUser" -> "atlassian"
      [] op \in {"getAllBoards", "getIssuesForBoard"} -> "agile"
      [] OTHER -> "jira"
ExpectedBaseURL(family) ==
    CASE family = "jira" -> "https://api.atlassian.com/ex/jira/cloud/rest/api/3"
      [] family = "agile" -> "https://api.atlassian.com/ex/jira/cloud/rest/agile/1.0"
      [] family = "atlassian" -> "https://api.atlassian.com"

Capped(call) ==
    /\ call.op = "getIssuesForProject"
    /\ call.loc # None
    /\ call.args[1].options.maxResults # None
    /\ call.args[1].options.maxResults[1] >= 1

\* C27: with a cap C >= 1, getIssuesForProject sends one search request, with
\* maxResults = C and the offset the caller gave, and never a second one: the
\* offset is not advanced, whatever the number of items in the answer.
C27_CappedCallSendsOneRequest ==
    \A c \in Calls :
        Capped(calls[c]) =>
            LET o == calls[c].args[1].options
                s == IF o.startAt = None THEN 0 ELSE o.startAt[1]
            IN  /\ calls[c].nreq = 1
                /\ calls[c].loc[1].startAt = s
                /\ calls[c].pc = "awaiting" =>
                        /\ calls[c].req[1].params.maxResults = o.maxResults
                        /\ EffectiveStartAt(calls[c].req[1]) = s

\* A capped call from offset 1 has returned a full page of C items after one
\* request.
C27_Witness ==
    \E c \in Calls :
        /\ Capped(calls[c])
        /\ calls[c].args[1].options.startAt = Some(1)
        /\ calls[c].pc = "done"
        /\ calls[c].result[1].kind = "ok"
        /\ Len(calls[c].result[1].value[1]) = calls[c].args[1].options.maxResults[1]
        /\ calls[c].nreq = 1

\* What searchIssues sends for an optional number: nothing for undefined and
\* for 0, the number otherwise.
SentNumber(n) == IF n = None \/ n[1] = 0 THEN None ELSE n

\* C28: getIssuesForProject with maxResults = 0 takes the path of a call with
\* no cap: page size 1000, no count of remaining items, and all the items
\* from the offset on are returned; and searchIssues leaves maxResults and
\* startAt out of the query when they are 0.
C28_ZeroIsNoCap ==
    \A c \in Calls :
        /\ (/\ calls[c].op = "getIssuesForProject"
            /\ calls[c].loc # None
            /\ calls[c].args[1].options.maxResults = Some(0)) =>
                LET o == calls[c].args[1].options
                    s == IF o.startAt = None THEN 0 ELSE o.startAt[1]
                IN  /\ shouldFetchAll(calls[c].loc[1])
                    /\ calls[c].loc[1].MAX_RESULTS = MAX_RESULTS
                    /\ calls[c].loc[1].remainingResults = Infinity
                    /\ calls[c].pc = "awaiting" =>
                            calls[c].req[1].params.maxResults = Some(MAX_RESULTS)
                    /\ calls[c].pc = "done" =>
                            /\ calls[c].result[1].kind = "ok"
                            /\ calls[c].result[1].value[1] =
                                    SubSeq(ServerItems, s + 1, serverTotal)
        /\ (calls[c].op = "searchIssues" /\ calls[c].pc = "awaiting") =>
                /\ calls[c].req[1].params.maxResults = SentNumber(calls[c].args[1].options.maxResults)
                /\ calls[c].req[1].params.startAt = SentNumber(calls[c].args[1].options.startAt)

\* getIssuesForProject with maxResults = 0 has returned the two items of the
\* service.
C28_Witness ==
    \E c \in Calls :
        /\ ProjectCallReturned(calls[c])
        /\ calls[c].args[1].options.maxResults = Some(0)
        /\ serverTotal = MaxSmallItems
        /\ calls[c].result[1].value[1] = ServerItems

\* C29: the message of every JiraApiError thrown by makeRequest is a text
\* that is not empty, whatever is present, absent or empty among the
\* errorMessages and the message of the body and the message of the
\* transport error.
C29_MessageNeverEmpty ==
    \A c \in Calls :
        DispatchFailed(calls[c]) => calls[c].result[1].message # ""

\* With an empty errorMessages, an empty body message and an empty transport
\* message the fallback text is thrown.
C29_Witness ==
    \E c \in Calls :
        /\ DispatchFailed(calls[c])
        /\ calls[c].rejection[1].message = ""
        /\ calls[c].rejection[1].response # None
        /\ calls[c].rejection[1].response[1].data # None
        /\ calls[c].rejection[1].response[1].data[1].errorMessages = Array(<<"">>)
        /\ calls[c].rejection[1].response[1].data[1].message = Some("")
        /\ calls[c].result[1].message = "An unknown Jira API error occurred"

\* C30: when the token exchange fails, refreshAccessToken rejects with the
\* transport error itself, its message and its response unchanged, not with a
\* JiraApiError; its request goes through the global axios, on which the
\* logging interceptors of the three instances are not installed.
C30_RefreshFailureIsTheTransportError ==
    \A c \in Calls :
        calls[c].op = "refreshAccessToken" =>
            /\ calls[c].pc = "awaiting" => calls[c].req[1].family \notin Families
            /\ (calls[c].pc = "done" /\ calls[c].rejection # None) =>
                    LET e == calls[c].rejection[1]
                        r == calls[c].result[1]
                    IN  /\ r.kind = "AxiosError"
                        /\ r.message = e.message
                        /\ e.response = None =>
                                r.status = None /\ r.statusText = None /\ r.responseData = None
                        /\ e.response # None =>
                                /\ r.status = Some(e.response[1].status)
                                /\ r.statusText = Some(e.response[1].statusText)
                                /\ r.responseData = e.response[1].data
                        /\ r.originalError = None

\* The token endpoint has answered 404 and the caller sees the transport
\* error with its message.
C30_Witness ==
    \E c \in Calls :
        /\ calls[c].op = "refreshAccessToken"
        /\ calls[c].pc = "done"
        /\ calls[c].rejection # None
        /\ calls[c].rejection[1].response # None
        /\ calls[c].result[1].kind = "AxiosError"
        /\ calls[c].result[1].message = "Request failed"
        /\ calls[c].result[1].status = Some(404)

====
